---- MODULE Spec2Model ----
(***************************************************************************)
(* lsct: list files recursively, sorted by content type (src/lsct.c).      *)
(*                                                                         *)
(* C strings are sequences of byte values without the terminating NUL;     *)
(* CharAt reads the NUL past the end.  The command line is read one        *)
(* argument at a time: the argument at argv[si] is drawn when the program  *)
(* first looks at it.  The file system is discovered the same way: every   *)
(* node nftw() reports is drawn when the walk reaches it.                  *)
(***************************************************************************)
EXTENDS Integers, Sequences, FiniteSets, TLC

\* ------------------------------------------------------------------ bounds
MaxSwitches == 1    \* switches read before the first root argument
MaxRoots    == 2    \* root arguments scanned
MaxVisits   == 3    \* calls of visit_file in one run
MaxDepth    == 2    \* directory levels whose entries are enumerated

\* ----------------------------------------------------------------- strings
\* s[i] of a C string, 0-based; the byte past the end is the NUL
CharAt(s, i) == IF i < Len(s) THEN s[i + 1] ELSE 0

RECURSIVE StrCmpFrom(_, _, _)
StrCmpFrom(s1, s2, i) ==
    IF CharAt(s1, i) # CharAt(s2, i) THEN CharAt(s1, i) - CharAt(s2, i)
    ELSE IF CharAt(s1, i) = 0 THEN 0
    ELSE StrCmpFrom(s1, s2, i + 1)

\* strcmp(3): byte-lexicographic comparison
strcmp(s1, s2) == StrCmpFrom(s1, s2, 0)

\* "inode/x-empty", the charset left out
EmptyMime_no_charset == <<105, 110, 111, 100, 101, 47, 120, 45, 101, 109, 112, 116, 121>>

\* "inode/x-empty; charset=binary"
EmptyMime == <<105, 110, 111, 100, 101, 47, 120, 45, 101, 109, 112, 116, 121,
               59, 32, 99, 104, 97, 114, 115, 101, 116, 61, 98, 105, 110, 97,
               114, 121>>
\* "inode/symlink"
SymlinkMime == <<105, 110, 111, 100, 101, 47, 115, 121, 109, 108, 105, 110, 107>>
\* labels libmagic may return for a non-empty regular file:
\* "application/pdf; charset=binary", "text/plain; charset=us-ascii"
PdfMime  == <<97, 112, 112, 108, 105, 99, 97, 116, 105, 111, 110, 47, 112, 100,
              102, 59, 32, 99, 104, 97, 114, 115, 101, 116, 61, 98, 105, 110,
              97, 114, 121>>
TextMime == <<116, 101, 120, 116, 47, 112, 108, 97, 105, 110, 59, 32, 99, 104,
              97, 114, 115, 101, 116, 61, 117, 115, 45, 97, 115, 99, 105, 105>>
\* magic_file() returns a label or NULL; NULL is the empty sequence
NULL == <<>>
MagicResults == {PdfMime, TextMime, NULL}

\* ------------------------------------------------------------ command line
\* "-m" "--mime" "-0" "--null" "-a" "--all" "-i" "--ignore-inaccessible"
\* "--help" "-x"
SwitchArgs == { <<45, 109>>, <<45, 45, 109, 105, 109, 101>>,
                <<45, 48>>, <<45, 45, 110, 117, 108, 108>>,
                <<45, 97>>, <<45, 45, 97, 108, 108>>,
                <<45, 105>>,
                <<45, 45, 105, 103, 110, 111, 114, 101, 45, 105, 110, 97, 99,
                  99, 101, 115, 115, 105, 98, 108, 101>>,
                <<45, 45, 104, 101, 108, 112>>,
                <<45, 120>> }
\* "." ".." ".h" "a"
DotDir    == <<46>>
DotDotDir == <<46, 46>>
PathArgs  == { DotDir, DotDotDir, <<46, 104>>, <<97>> }
Args      == SwitchArgs \cup PathArgs
\* names readdir() may deliver: ".c" "b"
EntryNames == { <<46, 99>>, <<98>> }

is_arg(param, short_arg, long_arg) ==
    (CharAt(param, 0) = short_arg /\ CharAt(param, 1) = 0) \/ strcmp(param, long_arg) = 0

is_long_arg(param, long_arg) == strcmp(param, long_arg) = 0

\* an unknown switch is passed over instead of being refused
read_switch_lenient(arg, s) ==
    LET param == Tail(arg) IN
    IF is_arg(param, 109, <<45, 109, 105, 109, 101>>)
        THEN [s EXCEPT !.print = "print_full", !.exit = "next"]
    ELSE IF is_arg(param, 48, <<45, 110, 117, 108, 108>>)
        THEN [s EXCEPT !.str_term = 0, !.exit = "next"]
    ELSE IF is_arg(param, 97, <<45, 97, 108, 108>>)
        THEN [s EXCEPT !.visit_dot_entries = TRUE, !.exit = "next"]
    ELSE IF is_arg(param, 105, <<45, 105, 103, 110, 111, 114, 101, 45, 105, 110,
                                 97, 99, 99, 101, 115, 115, 105, 98, 108, 101>>)
        THEN [s EXCEPT !.ignore_inaccessible_entries = TRUE, !.exit = "next"]
    ELSE IF is_long_arg(param, <<45, 104, 101, 108, 112>>)
        THEN [s EXCEPT !.exit = "help"]
    ELSE [s EXCEPT !.exit = "next"]

\* One iteration of the loop of read_switches on argv[i] = arg: the settings
\* after it, and how the iteration left ("next", "help", "invalid").
read_switch(arg, s) ==
    LET param == Tail(arg) IN
    IF is_arg(param, 109, <<45, 109, 105, 109, 101>>)
        THEN [s EXCEPT !.print = "print_full", !.exit = "next"]
    ELSE IF is_arg(param, 48, <<45, 110, 117, 108, 108>>)
        THEN [s EXCEPT !.str_term = 0, !.exit = "next"]
    ELSE IF is_arg(param, 97, <<45, 97, 108, 108>>)
        THEN [s EXCEPT !.visit_dot_entries = TRUE, !.exit = "next"]
    ELSE IF is_arg(param, 105, <<45, 105, 103, 110, 111, 114, 101, 45, 105, 110,
                                 97, 99, 99, 101, 115, 115, 105, 98, 108, 101>>)
        THEN [s EXCEPT !.ignore_inaccessible_entries = TRUE, !.exit = "next"]
    ELSE IF is_long_arg(param, <<45, 104, 101, 108, 112>>)
        THEN [s EXCEPT !.exit = "help"]
    ELSE [s EXCEPT !.exit = "invalid"]

\* ------------------------------------------------------------------- state
VARIABLES
    pc,                           \* where main() is
    status,                       \* exit status, meaningful once pc = "exited"
    si,                           \* index of the argument main() is at
    more,                         \* si < argc
    arg,                          \* argv[si] when more
    nroots,                       \* calls of scan_dir so far
    print,                        \* print_name or print_full
    str_term,                     \* line terminator byte
    visit_dot_entries,
    ignore_inaccessible_entries,
    tree,                         \* nodes of the tsearch tree
    dict,                         \* root of the tree, 0 is NULL
    stack,                        \* directories nftw() is reading, innermost last
    visits,                       \* calls of visit_file, in order
    stdout,                       \* calls of print, in order
    stderr                        \* diagnostics, in order

vars == <<pc, status, si, more, arg, nroots, print, str_term, visit_dot_entries,
          ignore_inaccessible_entries, tree, dict, stack, visits, stdout, stderr>>

settings == <<print, str_term, visit_dot_entries, ignore_inaccessible_entries>>
walkvars == <<tree, dict, stack, visits>>

Init ==
    /\ pc = "read_switches"
    /\ status = 0
    /\ si = 1
    /\ more = FALSE
    /\ arg = <<>>
    /\ nroots = 0
    /\ print = "print_name"
    /\ str_term = 10
    /\ visit_dot_entries = FALSE
    /\ ignore_inaccessible_entries = FALSE
    /\ tree = <<>>
    /\ dict = 0
    /\ stack = <<>>
    /\ visits = <<>>
    /\ stdout = <<>>
    /\ stderr = <<>>

\* error(EXIT_FAILURE, ...): one "[ERROR]" line, then exit(EXIT_FAILURE)
Exit(msg, what) ==
    /\ stderr' = Append(stderr, [level |-> "ERROR", msg |-> msg, arg |-> what])
    /\ status' = 1
    /\ pc' = "exited"

\* error(0, ...): one "[WARNING]" line
Warn(msg, what) == Append(stderr, [level |-> "WARNING", msg |-> msg, arg |-> what])

\* read_switches, one iteration of its loop
ReadSwitches ==
    /\ pc = "read_switches"
    /\ \E m \in BOOLEAN, a \in Args :
         LET isSwitch == m /\ CharAt(a, 0) = 45
             s == read_switch(a, [print |-> print, str_term |-> str_term,
                                  visit_dot_entries |-> visit_dot_entries,
                                  ignore_inaccessible_entries |-> ignore_inaccessible_entries,
                                  exit |-> "next"])
         IN
         /\ isSwitch => si - 1 < MaxSwitches
         /\ ~m => a = DotDir
         /\ IF ~isSwitch
              THEN /\ pc' = "init_libmagic"
                   /\ more' = m
                   /\ arg' = IF m THEN a ELSE <<>>
                   /\ UNCHANGED <<status, si, settings, stderr>>
            ELSE IF s.exit = "next"
              THEN /\ si' = si + 1
                   /\ print' = s.print
                   /\ str_term' = s.str_term
                   /\ visit_dot_entries' = s.visit_dot_entries
                   /\ ignore_inaccessible_entries' = s.ignore_inaccessible_entries
                   /\ UNCHANGED <<pc, status, more, arg, stderr>>
            ELSE IF s.exit = "help"
              THEN /\ stderr' = Append(stderr, [level |-> "USAGE", msg |-> "Usage", arg |-> <<>>])
                   /\ status' = 1
                   /\ pc' = "exited"
                   /\ UNCHANGED <<si, more, arg, settings>>
            ELSE /\ Exit("Invalid parameter", a)
                 /\ UNCHANGED <<si, more, arg, settings>>
    /\ UNCHANGED <<nroots, walkvars, stdout>>

\* init_libmagic and init_dict
InitLibmagic ==
    /\ pc = "init_libmagic"
    /\ \E r \in {"ok", "open", "load"} :
         IF r = "ok"
           THEN /\ pc' = "scan_dir"
                /\ UNCHANGED <<status, stderr>>
         ELSE IF r = "open"
           THEN Exit("Failed to initialise libmagic", <<>>)
         ELSE Exit("Failed to load libmagic database", <<>>)
    /\ UNCHANGED <<si, more, arg, nroots, settings, walkvars, stdout>>

\* ---------------------------------------------------- entry records, dict
\* the new record linked at the tail of the list
add_entry_record_at_tail(head, name) == head \o <<name>>

\* add_entry_record: the new record becomes the head of the list
add_entry_record(head, name) == <<name>> \o head

\* unequal labels always compare as "less": the order of arrival decides
cmp_dict_items_arrival(s1, s2) == IF strcmp(s1.mime, s2.mime) = 0 THEN 0 ELSE -1

\* the operands of the comparison swapped
cmp_dict_items_swapped(s1, s2) == strcmp(s2.mime, s1.mime)

\* equal labels compared as different
cmp_dict_items_never_equal(s1, s2) ==
    IF strcmp(s1.mime, s2.mime) = 0 THEN -1 ELSE strcmp(s1.mime, s2.mime)

cmp_dict_items(s1, s2) == strcmp(s1.mime, s2.mime)

\* A tree node holds the pointer tsearch stored: the item it points to and
\* whether that item lives on the heap or is dict_add's local key.
NewNode(item) == [item |-> item, left |-> 0, right |-> 0]

\* tsearch(3) below the node p: the tree afterwards and the node found or made
RECURSIVE tsearch_at(_, _, _)
tsearch_at(key, t, p) ==
    LET r == cmp_dict_items(key, t[p].item) IN
    IF r = 0 THEN [tree |-> t, node |-> p]
    ELSE IF r < 0 THEN
        IF t[p].left = 0
          THEN [tree |-> Append([t EXCEPT ![p].left = Len(t) + 1], NewNode(key)),
                node |-> Len(t) + 1]
          ELSE tsearch_at(key, t, t[p].left)
    ELSE
        IF t[p].right = 0
          THEN [tree |-> Append([t EXCEPT ![p].right = Len(t) + 1], NewNode(key)),
                node |-> Len(t) + 1]
          ELSE tsearch_at(key, t, t[p].right)

\* tsearch(key, &root, cmp_dict_items)
tsearch(key, t, root) ==
    IF root = 0
      THEN [tree |-> Append(t, NewNode(key)), root |-> Len(t) + 1, node |-> Len(t) + 1]
      ELSE LET r == tsearch_at(key, t, root)
           IN  [tree |-> r.tree, root |-> root, node |-> r.node]

\* the new node keeps pointing to the search key: no item is allocated
dict_add_keep_key(mime, name, t, root) ==
    LET key == [mime |-> mime, list_head |-> <<>>, heap |-> FALSE]
        r   == tsearch(key, t, root)
    IN  [tree |-> [r.tree EXCEPT ![r.node].item.list_head = add_entry_record(@, name)],
         root |-> r.root]

\* dict_add(mime, name): the tree and its root afterwards
dict_add(mime, name, t, root) ==
    LET key == [mime |-> mime, list_head |-> <<>>, heap |-> FALSE]
        r   == tsearch(key, t, root)
        ppi == r.node
        t1  == IF r.tree[ppi].item = key
                 THEN [r.tree EXCEPT ![ppi].item =
                          [mime |-> mime, list_head |-> <<>>, heap |-> TRUE]]
                 ELSE r.tree
    IN  [tree |-> [t1 EXCEPT ![ppi].item.list_head = add_entry_record(@, name)],
         root |-> r.root]

\* twalk(3) from the node p: the calls of the action, in order
RECURSIVE twalk(_, _, _)
twalk(t, p, level) ==
    IF p = 0 THEN <<>>
    ELSE IF t[p].left = 0 /\ t[p].right = 0
      THEN << [node |-> p, value |-> "leaf", level |-> level] >>
    ELSE << [node |-> p, value |-> "preorder", level |-> level] >>
         \o twalk(t, t[p].left, level + 1)
         \o << [node |-> p, value |-> "postorder", level |-> level] >>
         \o twalk(t, t[p].right, level + 1)
         \o << [node |-> p, value |-> "endorder", level |-> level] >>

\* print_full / print_name: the bytes printf writes, with the arguments of
\* the call kept beside them
print_full(name, mime) ==
    [bytes |-> mime \o <<58, 32>> \o name \o <<str_term>>, name |-> name, mime |-> mime]

print_name(name, mime) ==
    [bytes |-> name \o <<str_term>>, name |-> name, mime |-> mime]

print_call(name, mime) ==
    IF print = "print_full" THEN print_full(name, mime) ELSE print_name(name, mime)

\* only the leaves of the tree printed
print_dict_item_leaf_only(t, s, value) ==
    IF value = "leaf"
      THEN LET pi == t[s].item
           IN  [i \in 1..Len(pi.list_head) |-> print_call(pi.list_head[i], pi.mime)]
      ELSE <<>>

\* print_dict_item: the lines one call of the twalk action prints
print_dict_item(t, s, value) ==
    IF value = "postorder" \/ value = "leaf"
      THEN LET pi == t[s].item
           IN  [i \in 1..Len(pi.list_head) |-> print_call(pi.list_head[i], pi.mime)]
      ELSE <<>>

RECURSIVE print_all(_, _, _)
print_all(t, calls, i) ==
    IF i > Len(calls) THEN <<>>
    ELSE print_dict_item(t, calls[i].node, calls[i].value) \o print_all(t, calls, i + 1)

\* ------------------------------------------------------------- visit_file
\* What one call of visit_file does: its return value, the label it passes
\* to dict_add (NULL: no call), its calls of magic_file, whether it warns,
\* and the message it exits with ("no": it returns).
visit_none ==
    [ret |-> "FTW_CONTINUE", mime |-> NULL, magic |-> 0, warn |-> FALSE, exit |-> "no"]

\* the warning left out
visit_unreadable_silent == visit_none

\* case FTW_DNR, FTW_NS
visit_unreadable == [visit_none EXCEPT !.warn = TRUE]

\* the first byte of the path tested instead of the first byte of the base name
skip_entry_path_start(name, base) == ~visit_dot_entries /\ CharAt(name, 0) = 46

skip_entry(name, base) == ~visit_dot_entries /\ CharAt(name, base) = 46

\* a failure of magic_file taken as "skip this file"
visit_regular_skip_failed(ps, skip, magic) ==
    IF skip THEN visit_none
    ELSE IF ps.st_size > 0 THEN
        IF magic = NULL
          THEN [visit_none EXCEPT !.magic = 1]
          ELSE [visit_none EXCEPT !.magic = 1, !.mime = magic]
    ELSE [visit_none EXCEPT !.mime = EmptyMime]

\* the size test left out: every regular file goes to magic_file
visit_regular_any_size(ps, skip, magic) ==
    IF skip THEN visit_none
    ELSE IF magic = NULL
      THEN [visit_none EXCEPT !.magic = 1, !.exit = "libmagic error"]
      ELSE [visit_none EXCEPT !.magic = 1, !.mime = magic]

\* case S_IFREG; magic is what magic_file() returns if it is called
visit_regular(ps, skip, magic) ==
    IF skip THEN visit_none
    ELSE IF ps.st_size > 0 THEN
        IF magic = NULL
          THEN [visit_none EXCEPT !.magic = 1, !.exit = "libmagic error"]
          ELSE [visit_none EXCEPT !.magic = 1, !.mime = magic]
    ELSE [visit_none EXCEPT !.mime = EmptyMime]

\* case S_IFLNK
visit_symlink(skip) ==
    IF skip THEN visit_none ELSE [visit_none EXCEPT !.mime = SymlinkMime]

\* the test for "." and ".." left out
visit_directory_no_dot_case(name, base, skip) ==
    [visit_none EXCEPT !.ret = IF skip THEN "FTW_SKIP_SUBTREE" ELSE "FTW_CONTINUE"]

\* case S_IFDIR
visit_directory(name, base, skip) ==
    IF CharAt(name, base) = 46
       /\ (CharAt(name, base + 1) = 0
           \/ (CharAt(name, base + 1) = 46 /\ CharAt(name, base + 2) = 0))
      THEN visit_none
      ELSE [visit_none EXCEPT !.ret = IF skip THEN "FTW_SKIP_SUBTREE" ELSE "FTW_CONTINUE"]

\* the case chosen by nftw's type flag instead of the file type in st_mode
visit_file_by_typeflag(name, ps, typeflag, base, magic) ==
    IF typeflag \in {"FTW_DNR", "FTW_NS"} THEN visit_unreadable
    ELSE IF typeflag \notin {"FTW_D", "FTW_F", "FTW_SL"}
      THEN [visit_none EXCEPT !.exit = "Unexpected type flag"]
    ELSE IF typeflag = "FTW_F" THEN visit_regular(ps, skip_entry(name, base), magic)
    ELSE IF typeflag = "FTW_SL" THEN visit_symlink(skip_entry(name, base))
    ELSE visit_directory(name, base, skip_entry(name, base))

visit_file(name, ps, typeflag, base, magic) ==
    IF typeflag \in {"FTW_DNR", "FTW_NS"} THEN visit_unreadable
    ELSE IF typeflag \notin {"FTW_D", "FTW_F", "FTW_SL"}
      THEN [visit_none EXCEPT !.exit = "Unexpected type flag"]
    ELSE IF ps.st_mode = "S_IFREG" THEN visit_regular(ps, skip_entry(name, base), magic)
    ELSE IF ps.st_mode = "S_IFLNK" THEN visit_symlink(skip_entry(name, base))
    ELSE IF ps.st_mode = "S_IFDIR" THEN visit_directory(name, base, skip_entry(name, base))
    ELSE visit_none

\* ------------------------------------------------------------------- nftw
\* FTW_PHYS left out: the walk follows symbolic links
NftwFlags_logical == {"FTW_ACTIONRETVAL"}

\* the flags scan_dir passes to nftw
NftwFlags == {"FTW_PHYS", "FTW_ACTIONRETVAL"}

\* errno when nftw cannot stat the root, and when it fails below the root
Errnos     == {"ENOENT", "EACCES"}
WalkErrnos == {"ENOENT", "EIO"}

\* What lstat(2), stat(2) and opendir(3) would say of a node.
Node(kind, size, readable, target) ==
    [kind |-> kind, st_size |-> size, readable |-> readable, target |-> target]

Nodes ==
    { Node("REG", 0, TRUE, "NONE"), Node("REG", 1, TRUE, "NONE"),
      Node("LNK", 1, TRUE, "NONE"), Node("LNK", 1, TRUE, "REG"),
      Node("LNK", 1, TRUE, "DIR"),
      Node("DIR", 1, TRUE, "NONE"), Node("DIR", 1, FALSE, "NONE"),
      Node("FIFO", 0, TRUE, "NONE"),
      Node("NOSTAT", 0, FALSE, "NONE") }

\* "." and ".." name directories
RootNodes(dir) ==
    IF dir \in {DotDir, DotDotDir}
      THEN {n \in Nodes : n.kind = "DIR"}
      ELSE {n \in Nodes : n.kind # "NOSTAT"}

ModeOf(kind) ==
    CASE kind = "REG" -> "S_IFREG"
      [] kind = "LNK" -> "S_IFLNK"
      [] kind = "DIR" -> "S_IFDIR"
      [] OTHER        -> "S_IFIFO"

\* nftw: the type flag and the stat buffer the callback gets for a node
ftw_stat(flags, n) ==
    LET seen == IF n.kind = "LNK" /\ "FTW_PHYS" \notin flags THEN n.target ELSE n.kind
        ps   == [st_mode |-> ModeOf(seen), st_size |-> n.st_size]
    IN
    IF n.kind = "NOSTAT" THEN [typeflag |-> "FTW_NS", ps |-> ps]
    ELSE IF seen = "NONE" THEN [typeflag |-> "FTW_SLN", ps |-> [ps EXCEPT !.st_mode = "S_IFLNK"]]
    ELSE IF seen = "DIR"
      THEN [typeflag |-> IF n.readable THEN "FTW_D" ELSE "FTW_DNR", ps |-> ps]
    ELSE IF seen = "LNK" THEN [typeflag |-> "FTW_SL", ps |-> ps]
    ELSE [typeflag |-> "FTW_F", ps |-> ps]

\* nftw: offset of the base name in the path
RECURSIVE ftw_base(_, _)
ftw_base(name, i) ==
    IF i > 0 /\ name[i] # 47 THEN ftw_base(name, i - 1) ELSE i

\* nftw: what it does once the callback has returned
ftw_after(flags, typeflag, ret) ==
    IF ret = "FTW_CONTINUE"
      THEN IF typeflag = "FTW_D" THEN "descend" ELSE "next"
    ELSE IF "FTW_ACTIONRETVAL" \in flags THEN "next"
    ELSE "stop"

\* main: the loop over the root arguments, after one scan_dir has returned
Advance ==
    \E m \in BOOLEAN, a \in PathArgs \cup {<<45, 120>>} :
      /\ m => (more /\ nroots < MaxRoots /\ Len(visits) < MaxVisits)
      /\ ~m => a = DotDir
      /\ si' = IF more THEN si + 1 ELSE si
      /\ more' = m
      /\ arg' = IF m THEN a ELSE <<>>
      /\ pc' = IF m THEN "scan_dir" ELSE "emit"

\* scan_dir: nftw returned -1 with errno = e
NftwFailed(e, dir) ==
    IF e = "ENOENT" /\ ignore_inaccessible_entries
      THEN /\ stderr' = Append(stderr, [level |-> "WARNING", msg |-> e, arg |-> dir])
           /\ status' = status
           /\ Advance
      ELSE /\ stderr' = Append(stderr, [level |-> "ERROR", msg |-> e, arg |-> dir])
           /\ status' = 1
           /\ pc' = "exited"
           /\ UNCHANGED <<si, more, arg>>

\* nftw calls visit_file on one node; dirs is the stack of the directories
\* being read once the node's directory entry has been taken
Visit(name, base, n, magic, dir, dirs) ==
    LET st == ftw_stat(NftwFlags, n)
        r  == visit_file(name, st.ps, st.typeflag, base, magic)
        d  == IF r.mime # NULL /\ r.exit = "no"
                THEN dict_add(r.mime, name, tree, dict)
                ELSE [tree |-> tree, root |-> dict]
        after == ftw_after(NftwFlags, st.typeflag, r.ret)
    IN
    /\ Len(visits) < MaxVisits
    /\ visits' = Append(visits, [name |-> name, base |-> base, kind |-> n.kind,
                                 typeflag |-> st.typeflag, st_mode |-> st.ps.st_mode,
                                 st_size |-> st.ps.st_size, ret |-> r.ret,
                                 mime |-> r.mime, magic |-> r.magic, exit |-> r.exit,
                                 answer |-> IF r.magic = 0 THEN "none"
                                            ELSE IF magic = NULL THEN "fail" ELSE "ok"])
    /\ tree' = d.tree
    /\ dict' = d.root
    /\ IF r.exit # "no"
         THEN /\ stderr' = Append(stderr, [level |-> "ERROR", msg |-> r.exit, arg |-> name])
              /\ status' = 1
              /\ pc' = "exited"
              /\ stack' = dirs
              /\ UNCHANGED <<si, more, arg>>
       ELSE /\ stderr' = IF r.warn THEN Warn("Permission denied", name) ELSE stderr
            /\ status' = status
            /\ IF after = "descend"
                 THEN /\ stack' = Append(dirs, [name |-> name, seen |-> {}])
                      /\ pc' = "nftw"
                      /\ UNCHANGED <<si, more, arg>>
               ELSE IF after = "next" /\ dirs # <<>>
                 THEN /\ stack' = dirs
                      /\ pc' = "nftw"
                      /\ UNCHANGED <<si, more, arg>>
               ELSE /\ stack' = <<>>
                    /\ Advance

\* the directory scan_dir is called with
ScanArg == IF more THEN arg ELSE DotDir

\* scan_dir: nftw cannot stat the root
ScanDirFail ==
    /\ pc = "scan_dir"
    /\ nroots' = nroots + 1
    /\ \E e \in Errnos : NftwFailed(e, ScanArg)
    /\ UNCHANGED <<settings, walkvars, stdout>>

\* scan_dir: nftw calls visit_file on the root
ScanDirRoot ==
    /\ pc = "scan_dir"
    /\ nroots' = nroots + 1
    /\ \E n \in RootNodes(ScanArg), magic \in MagicResults :
         Visit(ScanArg, ftw_base(ScanArg, Len(ScanArg)), n, magic, ScanArg, <<>>)
    /\ UNCHANGED <<settings, stdout>>

\* nftw: the next entry of the directory being read
NftwEntry ==
    /\ pc = "nftw"
    /\ Len(stack) <= MaxDepth
    /\ LET top == stack[Len(stack)] IN
       \E b \in EntryNames \ top.seen, n \in Nodes, magic \in MagicResults :
         Visit(top.name \o <<47>> \o b, Len(top.name) + 1, n, magic, top.name,
               [stack EXCEPT ![Len(stack)].seen = @ \cup {b}])
    /\ UNCHANGED <<nroots, settings, stdout>>

\* nftw: the directory being read has no more entries
NftwLeaveDir ==
    /\ pc = "nftw"
    /\ stack' = SubSeq(stack, 1, Len(stack) - 1)
    /\ IF Len(stack) > 1
         THEN UNCHANGED <<pc, si, more, arg>>
         ELSE Advance
    /\ UNCHANGED <<status, nroots, settings, tree, dict, visits, stdout, stderr>>

\* nftw: the walk itself fails below the root, nftw returns -1
NftwError ==
    /\ pc = "nftw"
    /\ stack' = <<>>
    /\ \E e \in WalkErrnos : NftwFailed(e, stack[1].name)
    /\ UNCHANGED <<nroots, settings, tree, dict, visits, stdout>>

\* main does not leave after twalk: the dictionary is walked again
Emit_repeated ==
    /\ pc = "emit"
    /\ IF dict = 0
         THEN /\ Exit("Nothing to list", <<>>)
              /\ UNCHANGED stdout
         ELSE /\ stdout' = stdout \o print_all(tree, twalk(tree, dict, 0), 1)
              /\ status' = 0
              /\ pc' = IF stdout = <<>> THEN "emit" ELSE "exited"
              /\ UNCHANGED stderr
    /\ UNCHANGED <<si, more, arg, nroots, settings, walkvars>>

\* the test of the empty dictionary left out
NothingToList_never == FALSE

\* main: !dict
NothingToList == dict = 0

\* main after the last scan_dir: "Nothing to list", or twalk and return 0
Emit ==
    /\ pc = "emit"
    /\ IF NothingToList
         THEN /\ Exit("Nothing to list", <<>>)
              /\ UNCHANGED stdout
         ELSE /\ stdout' = stdout \o print_all(tree, twalk(tree, dict, 0), 1)
              /\ status' = 0
              /\ pc' = "exited"
              /\ UNCHANGED stderr
    /\ UNCHANGED <<si, more, arg, nroots, settings, walkvars>>

Next ==
    \/ ReadSwitches
    \/ InitLibmagic
    \/ ScanDirFail
    \/ ScanDirRoot
    \/ NftwEntry
    \/ NftwLeaveDir
    \/ NftwError
    \/ Emit

Spec == Init /\ [][Next]_vars

\* ----------------------------------------------------- reading the state
\* the calls of dict_add the visits made, in order
Inserts == SelectSeq(visits, LAMBDA v : v.mime # NULL /\ v.exit = "no")

\* the base name of a visited node starts with '.'
Hidden(v) == CharAt(v.name, v.base) = 46

\* the base name of a visited node is "." or ".."
DotOrDotDot(v) == SubSeq(v.name, v.base + 1, Len(v.name)) \in {DotDir, DotDotDir}

\* the hidden-entry filter applies to a visited node
FilteredOut(v) == ~visit_dot_entries /\ Hidden(v)

\* the path p lies below the directory d
IsBeneath(p, d) ==
    /\ Len(p) > Len(d) + 1
    /\ SubSeq(p, 1, Len(d)) = d
    /\ p[Len(d) + 1] = 47

\* the index holds the path name in the bucket of the label mime
InDict(mime, name) ==
    \E n \in 1..Len(tree) :
        /\ tree[n].item.mime = mime
        /\ \E k \in 1..Len(tree[n].item.list_head) : tree[n].item.list_head[k] = name

\* a sorts strictly before b, byte by byte; a proper prefix sorts first
LexLess(a, b) ==
    \E k \in 1..Len(b) :
        /\ \A i \in 1..(k - 1) : i <= Len(a) /\ a[i] = b[i]
        /\ (k > Len(a) \/ a[k] < b[k])

\* ------------------------------------------------------------------ claims
\* C1: the output is grouped by label and the labels ascend: of any two
\* output lines, the earlier one carries the same label as the later one or
\* a label that sorts strictly before it in byte order.
C1_GroupedAscending ==
    \A i, j \in 1..Len(stdout) :
        i < j => \/ stdout[i].mime = stdout[j].mime
                 \/ LexLess(stdout[i].mime, stdout[j].mime)

\* three lines printed, the labels inserted out of order and interleaved
C1_Witness ==
    /\ pc = "exited"
    /\ Len(stdout) = 3
    /\ Len(Inserts) = 3
    /\ LexLess(Inserts[2].mime, Inserts[1].mime)
    /\ Inserts[3].mime = Inserts[1].mime

\* C2: with hidden entries invisible, no regular file or symbolic link whose
\* base name starts with '.' is recorded, and a readable directory with such
\* a name (other than "." and "..") yields FTW_SKIP_SUBTREE and has no node
\* below it visited; with hidden entries visible, such files and links are
\* recorded and such directories yield FTW_CONTINUE.
C2_HiddenFilter ==
    \A i \in 1..Len(visits) :
        LET v == visits[i] IN
        (Hidden(v) /\ v.typeflag \in {"FTW_F", "FTW_SL", "FTW_D"}) =>
            IF ~visit_dot_entries
              THEN /\ v.kind \in {"REG", "LNK"} =>
                        /\ v.mime = NULL
                        /\ \A m \in {EmptyMime, SymlinkMime, PdfMime, TextMime} :
                              ~InDict(m, v.name)
                   /\ (v.kind = "DIR" /\ ~DotOrDotDot(v)) =>
                        /\ v.ret = "FTW_SKIP_SUBTREE"
                        /\ \A j \in 1..Len(visits) : ~IsBeneath(visits[j].name, v.name)
              ELSE /\ (v.kind \in {"REG", "LNK"} /\ v.exit = "no") =>
                        /\ v.mime # NULL
                        /\ InDict(v.mime, v.name)
                   /\ v.kind = "DIR" => v.ret = "FTW_CONTINUE"

\* a hidden directory below a root is pruned and a later sibling is recorded
C2_Witness ==
    /\ ~visit_dot_entries
    /\ \E i, j \in 1..Len(visits) :
        /\ i < j
        /\ Hidden(visits[i]) /\ visits[i].typeflag = "FTW_D" /\ visits[i].base > 0
        /\ visits[i].ret = "FTW_SKIP_SUBTREE"
        /\ visits[j].mime # NULL

\* C3: magic_file is called at most once in a visit, and only on a regular
\* file of size greater than zero that the hidden-entry filter lets through.
C3_ClassifierCalls ==
    \A i \in 1..Len(visits) :
        LET v == visits[i] IN
        /\ v.magic <= 1
        /\ v.magic >= 1 => /\ v.kind = "REG"
                           /\ v.typeflag = "FTW_F"
                           /\ v.st_mode = "S_IFREG"
                           /\ v.st_size > 0
                           /\ ~FilteredOut(v)

\* one file classified, one empty file and one symbolic link not classified
C3_Witness ==
    \E i, j, k \in 1..Len(visits) :
        /\ visits[i].magic = 1 /\ visits[i].answer = "ok"
        /\ visits[j].kind = "REG" /\ visits[j].st_size = 0 /\ visits[j].magic = 0
        /\ visits[k].kind = "LNK" /\ visits[k].magic = 0

\* C4: a visited regular file of size zero that the hidden-entry filter lets
\* through is recorded under "inode/x-empty; charset=binary", without a call
\* of magic_file.
C4_EmptyFile ==
    \A i \in 1..Len(visits) :
        LET v == visits[i]
            label == <<105, 110, 111, 100, 101, 47, 120, 45, 101, 109, 112, 116,
                       121, 59, 32, 99, 104, 97, 114, 115, 101, 116, 61, 98, 105,
                       110, 97, 114, 121>>
        IN
        (v.kind = "REG" /\ v.typeflag = "FTW_F" /\ v.st_size = 0 /\ ~FilteredOut(v)) =>
            /\ v.mime = label
            /\ v.magic = 0
            /\ InDict(label, v.name)

\* an empty file is recorded and printed beside a classified one
C4_Witness ==
    /\ pc = "exited" /\ status = 0
    /\ \E i, j \in 1..Len(visits) :
        /\ visits[i].kind = "REG" /\ visits[i].st_size = 0 /\ visits[i].mime # NULL
        /\ visits[j].magic = 1
    /\ \E k \in 1..Len(stdout) : stdout[k].mime = EmptyMime

\* C5: a visited symbolic link that the hidden-entry filter lets through is
\* reported as a link, recorded under "inode/symlink" without a call of
\* magic_file, and the node visited next is not below it.
C5_Symlink ==
    \A i \in 1..Len(visits) :
        LET v == visits[i]
            label == <<105, 110, 111, 100, 101, 47, 115, 121, 109, 108, 105, 110, 107>>
        IN
        v.kind = "LNK" =>
            /\ v.typeflag = "FTW_SL"
            /\ i < Len(visits) => ~IsBeneath(visits[i + 1].name, v.name)
            /\ ~FilteredOut(v) => /\ v.mime = label
                                  /\ v.magic = 0
                                  /\ InDict(label, v.name)

\* a link below a root is recorded and the walk goes on to its sibling
C5_Witness ==
    \E i \in 1..Len(visits) :
        /\ visits[i].kind = "LNK" /\ visits[i].base > 0
        /\ visits[i].mime = SymlinkMime
        /\ i < Len(visits)
        /\ InDict(SymlinkMime, visits[i].name)

\* the output lines that carry the path name under the label mime
OutIdx(mime, name) ==
    {k \in 1..Len(stdout) : stdout[k].mime = mime /\ stdout[k].name = name}

\* how many elements of a sequence of records carry this label and path
Count(seq, mime, name) ==
    Cardinality({k \in 1..Len(seq) : seq[k].mime = mime /\ seq[k].name = name})

\* C6, as claimed: of two different paths inserted under one label, the one
\* inserted first is printed first.
C6_AppendOrder ==
    (pc = "exited" /\ status = 0) =>
        \A i, j \in 1..Len(Inserts) :
            (i < j /\ Inserts[i].mime = Inserts[j].mime /\ Inserts[i].name # Inserts[j].name) =>
                \E k1 \in OutIdx(Inserts[i].mime, Inserts[i].name),
                   k2 \in OutIdx(Inserts[j].mime, Inserts[j].name) : k1 < k2

\* C6, amended: of two different paths inserted under one label, the one
\* inserted first is printed after the one inserted later.
C6_PrependOrder ==
    (pc = "exited" /\ status = 0) =>
        \A i, j \in 1..Len(Inserts) :
            (i < j /\ Inserts[i].mime = Inserts[j].mime /\ Inserts[i].name # Inserts[j].name) =>
                \E k1 \in OutIdx(Inserts[i].mime, Inserts[i].name),
                   k2 \in OutIdx(Inserts[j].mime, Inserts[j].name) : k2 < k1

\* two different paths under one label have been printed
C6_Witness ==
    /\ pc = "exited" /\ status = 0
    /\ \E i, j \in 1..Len(Inserts) :
        /\ i < j
        /\ Inserts[i].mime = Inserts[j].mime
        /\ Inserts[i].name # Inserts[j].name
        /\ OutIdx(Inserts[i].mime, Inserts[i].name) # {}

\* every recorded entry has one output line
AllPrinted(out) ==
    /\ Len(out) = Len(Inserts)
    /\ \A i \in 1..Len(Inserts) :
        Count(out, Inserts[i].mime, Inserts[i].name)
            = Count(Inserts, Inserts[i].mime, Inserts[i].name)

\* C7: once the roots are done, the run ends with status 0 and every
\* recorded entry printed if an entry was recorded, and with "Nothing to
\* list", a non-zero status and no output if none was; status 0 is reached
\* in no other way.
C7_ExitStatus ==
    /\ [](pc = "exited" /\ status = 0 => Len(Inserts) > 0 /\ AllPrinted(stdout))
    /\ [][pc = "emit" =>
            /\ pc' = "exited"
            /\ IF Len(Inserts) > 0
                 THEN status' = 0 /\ AllPrinted(stdout') /\ stderr' = stderr
                 ELSE /\ status' # 0
                      /\ stdout' = <<>>
                      /\ stderr'[Len(stderr')].msg = "Nothing to list"]_vars

\* a successful run that printed two entries and left one node unrecorded
C7_Witness ==
    /\ pc = "exited" /\ status = 0
    /\ Len(stdout) = 2
    /\ Len(visits) = 3

\* C8: a failure of magic_file ends the run at that visit with a non-zero
\* status and an error message, and no output line is written, whatever
\* had been recorded before; nothing happens after the exit.
C8_ClassifierFailureFatal ==
    /\ [](\A i \in 1..Len(visits) :
            visits[i].answer = "fail" =>
                /\ i = Len(visits)
                /\ pc = "exited"
                /\ status # 0
                /\ stdout = <<>>
                /\ stderr[Len(stderr)] = [level |-> "ERROR", msg |-> "libmagic error",
                                          arg |-> visits[i].name])
    /\ [][pc # "exited"]_vars

\* magic_file fails in the second root, after the first root recorded entries
C8_Witness ==
    /\ nroots = 2
    /\ Len(visits) = 3
    /\ visits[3].answer = "fail"
    /\ visits[1].mime # NULL
    /\ dict # 0

\* C9, as claimed: when nftw cannot open a root, whatever errno it leaves,
\* the run warns and goes on to the next root if inaccessible roots are
\* tolerated, and exits with an error if they are not.
C9_RootTolerance ==
    [][(pc = "scan_dir" /\ visits' = visits /\ nroots' # nroots) =>
          IF ignore_inaccessible_entries
            THEN /\ pc' \in {"scan_dir", "emit"}
                 /\ Len(stderr') = Len(stderr) + 1
                 /\ stderr'[Len(stderr')].level = "WARNING"
            ELSE /\ pc' = "exited"
                 /\ status' # 0
                 /\ stderr'[Len(stderr')].level = "ERROR"]_vars

\* the warnings visit_file wrote on unreadable nodes
PermissionWarnings ==
    SelectSeq(stderr, LAMBDA d : d.level = "WARNING" /\ d.msg = "Permission denied")

\* C10: on a node reported as FTW_DNR or FTW_NS, visit_file warns, records
\* nothing, does not call magic_file and returns FTW_CONTINUE, whatever the
\* name of the node and the hidden-entry setting.
C10_UnreadableRecoverable ==
    /\ \A i \in 1..Len(visits) :
         LET v == visits[i] IN
         v.typeflag \in {"FTW_DNR", "FTW_NS"} =>
             /\ v.ret = "FTW_CONTINUE"
             /\ v.mime = NULL
             /\ v.magic = 0
             /\ v.exit = "no"
             /\ \E k \in 1..Len(PermissionWarnings) : PermissionWarnings[k].arg = v.name
    /\ Len(PermissionWarnings)
         = Len(SelectSeq(visits, LAMBDA v : v.typeflag \in {"FTW_DNR", "FTW_NS"}))

\* a hidden node cannot be stat'ed and the walk goes on to record the next
C10_Witness ==
    /\ ~visit_dot_entries
    /\ \E i, k \in 1..Len(visits) :
        /\ visits[i].typeflag = "FTW_NS" /\ Hidden(visits[i])
        /\ i < k /\ visits[k].mime # NULL

\* the visits that start the traversal of a root
RootVisits == {i \in 1..Len(visits) : visits[i].base = 0}

\* the calls of dict_add among the visits from..to
InsertsOf(from, to) ==
    SelectSeq(SubSeq(visits, from, to), LAMBDA v : v.mime # NULL /\ v.exit = "no")

\* the dictionary after the first i of the calls of dict_add in ins
RECURSIVE DictAfter(_, _)
DictAfter(ins, i) ==
    IF i = 0 THEN [tree |-> <<>>, root |-> 0]
    ELSE LET d == DictAfter(ins, i - 1)
         IN  dict_add(ins[i].mime, ins[i].name, d.tree, d.root)

\* what a run that makes the calls of dict_add in ins prints
RunOutput(ins) ==
    LET d == DictAfter(ins, Len(ins))
    IN  print_all(d.tree, twalk(d.tree, d.root, 0), 1)

\* C11: when a successful run scanned two roots whose recorded entries share
\* no label, the run that scans the second root first and records the same
\* entries for each root prints exactly the same lines in the same order.
C11_RootIndependence ==
    (pc = "exited" /\ status = 0 /\ Cardinality(RootVisits) = 2) =>
        LET k  == CHOOSE i \in RootVisits : i > 1
            A  == InsertsOf(1, k - 1)
            B  == InsertsOf(k, Len(visits))
        IN  (\A i \in 1..Len(A), j \in 1..Len(B) : A[i].mime # B[j].mime) =>
                RunOutput(B \o A) = stdout

\* two roots with different labels, the first root's label sorting last
C11_Witness ==
    /\ pc = "exited" /\ status = 0
    /\ Cardinality(RootVisits) = 2
    /\ Len(Inserts) = 2
    /\ Len(stdout) = 2
    /\ LET k == CHOOSE i \in RootVisits : i > 1 IN
       /\ Len(InsertsOf(1, k - 1)) = 1
       /\ Len(InsertsOf(k, Len(visits))) = 1
    /\ LexLess(Inserts[2].mime, Inserts[1].mime)

\* an argument that starts with '-' and is none of the switches
Unrecognized(a) ==
    /\ Len(a) > 0 /\ a[1] = 45
    /\ a \notin { <<45, 109>>, <<45, 45, 109, 105, 109, 101>>,
                  <<45, 48>>, <<45, 45, 110, 117, 108, 108>>,
                  <<45, 97>>, <<45, 45, 97, 108, 108>>,
                  <<45, 105>>,
                  <<45, 45, 105, 103, 110, 111, 114, 101, 45, 105, 110, 97, 99,
                    99, 101, 115, 115, 105, 98, 108, 101>>,
                  <<45, 45, 104, 101, 108, 112>> }

\* C12, as claimed: once the program has met an unrecognized flag on the
\* command line, the run has ended with a failure and no root was scanned,
\* no node visited and no entry recorded.
C12_InvalidFlagAnywhere ==
    ((more /\ Unrecognized(arg)) \/ \E k \in 1..Len(stderr) : stderr[k].msg = "Invalid parameter") =>
        /\ pc = "exited" /\ status # 0
        /\ nroots = 0 /\ visits = <<>> /\ tree = <<>>

\* C12, amended: read_switches refuses every unrecognized flag it looks at,
\* that is every one before the first argument that does not start with '-';
\* the run then ends with "Invalid parameter" and a failure before any root
\* is scanned, any node visited or any entry recorded.
C12_InvalidLeadingFlag ==
    /\ [](pc = "read_switches" =>
            \A a \in Args : Unrecognized(a) =>
                read_switch(a, [print |-> print, str_term |-> str_term,
                                visit_dot_entries |-> visit_dot_entries,
                                ignore_inaccessible_entries |-> ignore_inaccessible_entries,
                                exit |-> "next"]).exit = "invalid")
    /\ [](\A k \in 1..Len(stderr) : stderr[k].msg = "Invalid parameter" =>
            /\ Unrecognized(stderr[k].arg)
            /\ pc = "exited" /\ status # 0
            /\ nroots = 0 /\ visits = <<>> /\ tree = <<>> /\ stdout = <<>>)
    /\ [][pc = "read_switches" =>
            /\ nroots' = 0 /\ visits' = <<>> /\ tree' = <<>>
            /\ pc' = "init_libmagic" => ~(more' /\ CharAt(arg', 0) = 45)]_vars

\* the run was ended by an unrecognized first argument
C12_Witness ==
    /\ pc = "exited" /\ status # 0
    /\ Len(stderr) = 1
    /\ stderr[1].msg = "Invalid parameter"
    /\ Unrecognized(stderr[1].arg)
    /\ si = 1

\* the paths printed under a label, and the paths inserted under it, in order
PrintedUnder(mime) ==
    LET l == SelectSeq(stdout, LAMBDA o : o.mime = mime)
    IN  [k \in 1..Len(l) |-> l[k].name]

InsertedUnder(mime) ==
    LET l == SelectSeq(Inserts, LAMBDA v : v.mime = mime)
    IN  [k \in 1..Len(l) |-> l[k].name]

Reverse(q) == [k \in 1..Len(q) |-> q[Len(q) + 1 - k]]

\* C13: in a successful run, the paths printed under a label are exactly the
\* paths inserted under it, in the reverse of the order of insertion.
C13_BucketReversed ==
    (pc = "exited" /\ status = 0) =>
        \A m \in {EmptyMime, SymlinkMime, PdfMime, TextMime} :
            PrintedUnder(m) = Reverse(InsertedUnder(m))

\* a bucket of two different paths printed, the later one first
C13_Witness ==
    /\ pc = "exited" /\ status = 0
    /\ \E m \in {EmptyMime, SymlinkMime, PdfMime, TextMime} :
        /\ Len(InsertedUnder(m)) = 2
        /\ InsertedUnder(m)[1] # InsertedUnder(m)[2]
        /\ PrintedUnder(m)[1] = InsertedUnder(m)[2]

\* C14: a readable directory whose base name is "." or ".." yields
\* FTW_CONTINUE, never FTW_SKIP_SUBTREE, whatever the hidden-entry setting,
\* and is not recorded or classified.
C14_DotRootContinues ==
    \A i \in 1..Len(visits) :
        LET v == visits[i] IN
        (v.kind = "DIR" /\ DotOrDotDot(v)) =>
            /\ v.ret = "FTW_CONTINUE"
            /\ v.mime = NULL
            /\ v.magic = 0
            /\ v.exit = "no"

\* the default run on the root "." records a child of the root
C14_Witness ==
    /\ ~visit_dot_entries
    /\ Len(visits) >= 2
    /\ visits[1].name = <<46>> /\ visits[1].typeflag = "FTW_D"
    /\ IsBeneath(visits[2].name, visits[1].name)
    /\ ~Hidden(visits[2])
    /\ visits[2].mime # NULL

\* C15: output is written only by the step that follows the last scan_dir,
\* in one piece and only once; once a line is written the run is over, and
\* nothing is visited or inserted afterwards.
C15_PhasesDisjoint ==
    /\ [](stdout # <<>> => pc = "exited")
    /\ [][stdout' # stdout => pc = "emit" /\ pc' = "exited" /\ stdout = <<>>
                              /\ visits' = visits /\ tree' = tree]_vars
    /\ [][stdout # <<>> => visits' = visits /\ tree' = tree /\ stdout' = stdout]_vars
    /\ [][(visits' # visits \/ tree' # tree) => pc \in {"scan_dir", "nftw"} /\ stdout' = <<>>]_vars

\* entries of two roots were recorded, then printed
C15_Witness ==
    /\ pc = "exited" /\ status = 0
    /\ nroots = 2
    /\ Len(stdout) = 2
    /\ Len(tree) = 2

\* the labels of the buckets of a tree
Labels(t) == {t[n].item.mime : n \in 1..Len(t)}

\* a step that calls dict_add: the visit it appends is a recorded one
IsInsertStep ==
    /\ Len(visits') = Len(visits) + 1
    /\ visits'[Len(visits')].mime # NULL
    /\ visits'[Len(visits')].exit = "no"

\* C16: the tree holds one bucket per label inserted so far, no two buckets
\* carry the same label; an insert under a present label adds no bucket and
\* puts the path into the bucket of that label, an insert under a new label
\* adds one bucket holding that path; no other step touches the tree, and
\* no bucket disappears or changes its label.
C16_OneBucketPerLabel ==
    /\ [](/\ \A n1, n2 \in 1..Len(tree) :
                tree[n1].item.mime = tree[n2].item.mime => n1 = n2
          /\ Labels(tree) = {Inserts[i].mime : i \in 1..Len(Inserts)})
    /\ [][/\ Len(tree') >= Len(tree)
          /\ \A n \in 1..Len(tree) : tree'[n].item.mime = tree[n].item.mime
          /\ IF IsInsertStep
               THEN LET v == visits'[Len(visits')] IN
                    IF v.mime \in Labels(tree)
                      THEN /\ Len(tree') = Len(tree)
                           /\ \A n \in 1..Len(tree) :
                                tree'[n].item.list_head =
                                    IF tree[n].item.mime = v.mime
                                      THEN <<v.name>> \o tree[n].item.list_head
                                      ELSE tree[n].item.list_head
                      ELSE /\ Len(tree') = Len(tree) + 1
                           /\ tree'[Len(tree')].item.mime = v.mime
                           /\ tree'[Len(tree')].item.list_head = <<v.name>>
                           /\ \A n \in 1..Len(tree) :
                                tree'[n].item.list_head = tree[n].item.list_head
               ELSE tree' = tree]_vars

\* two inserts under one label have left one bucket of two paths
C16_Witness ==
    /\ Len(Inserts) = 2
    /\ Inserts[1].mime = Inserts[2].mime
    /\ Len(tree) = 1
    /\ Len(tree[1].item.list_head) = 2

\* the paths held by the buckets n..Len(tree), counted
RECURSIVE Stored(_)
Stored(n) ==
    IF n > Len(tree) THEN 0 ELSE Len(tree[n].item.list_head) + Stored(n + 1)

\* C17: every visit that calls dict_add is a visit of a regular file or of a
\* symbolic link, reported by nftw as FTW_F or FTW_SL; every path in the
\* tree was put there by such a visit, and the tree holds nothing else.
C17_OnlyFilesAndLinks ==
    /\ \A i \in 1..Len(visits) :
        visits[i].mime # NULL =>
            /\ visits[i].kind \in {"REG", "LNK"}
            /\ visits[i].typeflag \in {"FTW_F", "FTW_SL"}
            /\ visits[i].st_mode \in {"S_IFREG", "S_IFLNK"}
    /\ \A n \in 1..Len(tree) : \A k \in 1..Len(tree[n].item.list_head) :
        \E i \in 1..Len(visits) :
            /\ visits[i].name = tree[n].item.list_head[k]
            /\ visits[i].mime = tree[n].item.mime
            /\ visits[i].kind \in {"REG", "LNK"}
    /\ \A i \in 1..Len(visits) :
        visits[i].kind \in {"DIR", "FIFO", "NOSTAT"} =>
            \A m \in Labels(tree) :
                ~InDict(m, visits[i].name) \/
                \E j \in 1..Len(visits) :
                    /\ visits[j].name = visits[i].name
                    /\ visits[j].mime = m
                    /\ visits[j].kind \in {"REG", "LNK"}

\* a directory and a FIFO in it were visited and left out, a file recorded
C17_Witness ==
    /\ Len(visits) = 3
    /\ visits[1].kind = "DIR"
    /\ \E i \in 2..3 : visits[i].kind = "FIFO" /\ ~Hidden(visits[i])
    /\ \E i \in 2..3 : visits[i].kind = "REG" /\ visits[i].mime # NULL
    /\ Stored(1) = 1

\* C18: the tree holds as many paths as dict_add was called; a successful
\* run prints as many lines as that, each pair of label and path as often
\* as it was inserted, and each line is what the chosen print function
\* writes for an inserted pair.
C18_Conservation ==
    /\ Stored(1) = Len(Inserts)
    /\ (pc = "exited" /\ status = 0) =>
        /\ Len(stdout) = Len(Inserts)
        /\ \A i \in 1..Len(Inserts) :
            Cardinality(OutIdx(Inserts[i].mime, Inserts[i].name))
                = Count(Inserts, Inserts[i].mime, Inserts[i].name)
        /\ \A k \in 1..Len(stdout) :
            /\ stdout[k] = print_call(stdout[k].name, stdout[k].mime)
            /\ \E i \in 1..Len(Inserts) :
                Inserts[i].mime = stdout[k].mime /\ Inserts[i].name = stdout[k].name

\* one file given as a root twice is printed twice
C18_Witness ==
    /\ pc = "exited" /\ status = 0
    /\ Len(visits) = 2
    /\ visits[1].base = 0 /\ visits[2].base = 0
    /\ visits[1].name = visits[2].name
    /\ visits[1].mime # NULL /\ visits[1].mime = visits[2].mime
    /\ Cardinality(OutIdx(visits[1].mime, visits[1].name)) = 2

\* C19: every node of the tree points to an item on the heap that carries
\* the label it was made for and holds at least one path; the root is NULL
\* exactly when dict_add has not been called, and then "Nothing to list"
\* is reported.
C19_NoEmptyBucket ==
    /\ \A n \in 1..Len(tree) :
        /\ tree[n].item.heap
        /\ Len(tree[n].item.list_head) >= 1
        /\ tree[n].item.mime \in {Inserts[i].mime : i \in 1..Len(Inserts)}
    /\ (dict = 0) <=> (Len(Inserts) = 0)
    /\ (dict = 0) <=> (tree = <<>>)
    /\ dict # 0 => dict \in 1..Len(tree)
    /\ (pc = "emit" /\ Len(Inserts) = 0) => NothingToList

\* two buckets made by two calls of dict_add
C19_Witness ==
    /\ dict # 0
    /\ Len(tree) = 2
    /\ Len(Inserts) = 2
    /\ \A n \in 1..2 : tree[n].item.heap /\ Len(tree[n].item.list_head) = 1
====
